---- MODULE Spec2Model ----
(***************************************************************************)
(* The survey form (src/src/pages/Survey.tsx) and the results dashboard    *)
(* (src/src/pages/Dashboard.tsx) of telegram-insight-survey, with the      *)
(* record store both talk to.  One page is mounted at a time; a handler    *)
(* that awaits the store is two steps, the part before the await and the   *)
(* continuation that runs when the store answers.                          *)
(*                                                                         *)
(* toast, issued and done are output channels: after every step they hold  *)
(* what that step reported to the user, what it sent to the store and      *)
(* which store answer it handled ("none" when it did not).                 *)
(***************************************************************************)
EXTENDS Integers, Sequences, FiniteSets, TLC

\* ------------------------------------------------------------- bounds
\* submit clicks explored in one behaviour
MaxSubmits == 2
\* dashboard fetches in flight at once
MaxInFlight == 2
\* records other clients add while the dashboard is open
MaxArrivals == 1

\* ------------------------------------------------------- program data
Other == "Other"

ageGroups == <<"Under 18", "45+">>

usageDurations == <<"Less than 6 months", "More than 3 years">>

usageReasons == <<"To chat with friends", "For bots and automation", Other>>

\* a label is the sequence of its space-separated pieces and the spaces
\* between them; the first piece is the decorative emoji
contentPreferences ==
    << <<"(film)", " ", "Movies">>,
       <<"(books)", " ", "E-books", " ", "&", " ", "Study">> >>

recommendOptions == <<"Yes", "No", "Maybe">>

responsesPerPage == 10

TextFields == {"name", "regular_bots_or_channels", "improvement_suggestions"}

\* ------------------------------------------------------------ helpers
Range(s) == {s[i] : i \in DOMAIN s}

Min(a, b) == IF a < b THEN a ELSE b

Max(a, b) == IF a > b THEN a ELSE b

\* Array.prototype.includes
includes(s, v) == \E i \in DOMAIN s : s[i] = v

\* s.filter(item => item !== v)
filterOut(s, v) == SelectSeq(s, LAMBDA item : item # v)

\* JavaScript null, and a text value, as the store receives an optional column
Null == [isNull |-> TRUE, text |-> ""]

Text(v) == [isNull |-> FALSE, text |-> v]

\* the value sent as typed, blank or not
OrNull_AsTyped(v) == Text(v)

\* v || null : the empty string is the only falsy string
OrNull(v) == IF v = "" THEN Null ELSE Text(v)

\* ------------------------------------------------------------- state
VARIABLES
    route,           \* which page is mounted: "survey" or "dashboard"
    respondent,      \* which kind of user fills the form in this behaviour
    formData,        \* Survey: the draft
    isSubmitting,    \* Survey: the submit button is disabled
    pendingInsert,   \* the insert request awaiting the store's answer
    nSubmits,        \* submit actions so far
    nInserts,        \* insert requests issued so far
    table,           \* the store's telegram_survey rows, oldest first
    responses,       \* Dashboard: the displayed page of records
    currentPage,     \* Dashboard: the page index
    totalResponses,  \* Dashboard: the displayed total count
    loading,         \* Dashboard: the loading indicator
    fetches,         \* Dashboard: fetchResponses calls awaiting the store
    latest,          \* history: how the fetchResponses call started last ended
    shown,           \* history: the page index whose range answer is displayed
    nArrivals,       \* records added by other clients so far
    toast,           \* the notice shown by the last step
    issued,          \* the store request sent by the last step
    done             \* the store answer handled by the last step

surveyVars == <<formData, isSubmitting, pendingInsert, nSubmits, nInserts>>

dashVars == <<responses, currentPage, totalResponses, loading, fetches, latest, shown>>

vars == <<route, respondent, table, nArrivals, toast, issued, done,
          formData, isSubmitting, pendingInsert, nSubmits, nInserts,
          responses, currentPage, totalResponses, loading, fetches, latest, shown>>

NoToast == "none"

Nothing == [kind |-> "none"]

NoRequest == [pending |-> FALSE]

\* useState initial value of formData, and the value of the reset
EmptyDraft ==
    [name |-> "", age_group |-> "", usage_duration |-> "",
     usage_reason |-> <<>>, content_preference |-> <<>>,
     regular_bots_or_channels |-> "", recommend_telegram |-> "",
     improvement_suggestions |-> "", other_usage_reason |-> ""]

\* ------------------------------------------------------- the respondent
(* The values a respondent enters.  Each kind of respondent explores one   *)
(* group of controls in full and uses the first option of the others, so   *)
(* that the reachable drafts are a sum over the groups, not their product. *)
Respondents == {"writer", "chooser", "reasoner", "browser"}

Typed(f) ==
    IF respondent # "writer" THEN {}
    ELSE IF f = "name" THEN {"", " ", "Ann"} ELSE {"", "Ann"}

Scratch == IF respondent = "reasoner" THEN {"", "Custom X", Other} ELSE {}

Explores(group) ==
    \/ respondent = "chooser"
          /\ group \in {"age_group", "usage_duration", "recommend_telegram"}
    \/ respondent = "reasoner" /\ group = "usage_reason"
    \/ respondent = "browser" /\ group = "content_preference"

Clicked(group, options) == IF Explores(group) THEN Range(options) ELSE {options[1]}

\* the respondent stops after the last submit click explored
UserActive == route = "survey" /\ nSubmits < MaxSubmits

\* ------------------------------------------------------------- Survey
\* the scratch value put where "Other" stands
finalUsageReasons_InPlace(d) ==
    IF includes(d.usage_reason, Other) /\ d.other_usage_reason # ""
    THEN [i \in DOMAIN d.usage_reason |->
            IF d.usage_reason[i] = Other THEN d.other_usage_reason
            ELSE d.usage_reason[i]]
    ELSE d.usage_reason

finalUsageReasons(d) ==
    IF includes(d.usage_reason, Other) /\ d.other_usage_reason # ""
    THEN Append(filterOut(d.usage_reason, Other), d.other_usage_reason)
    ELSE d.usage_reason

\* the row handed to insert
InsertRow(d) ==
    [name |-> OrNull(d.name),
     age_group |-> d.age_group,
     usage_duration |-> d.usage_duration,
     usage_reason |-> finalUsageReasons(d),
     content_preference |-> d.content_preference,
     regular_bots_or_channels |-> OrNull(d.regular_bots_or_channels),
     recommend_telegram |-> d.recommend_telegram,
     improvement_suggestions |-> OrNull(d.improvement_suggestions)]

\* recommend_telegram left out of the check
MissingFields_TwoOfThree(d) == d.age_group = "" \/ d.usage_duration = ""

MissingFields(d) ==
    d.age_group = "" \/ d.usage_duration = "" \/ d.recommend_telegram = ""

\* content_preference left out of the check
MissingSelections_ReasonOnly(d) == Len(d.usage_reason) = 0

MissingSelections(d) ==
    Len(d.usage_reason) = 0 \/ Len(d.content_preference) = 0

\* setFormData(prev => ({ ...prev, [f]: v })) from an input or a radio group
SetField(f, v) ==
    /\ UserActive
    /\ formData' = [formData EXCEPT ![f] = v]
    /\ toast' = NoToast /\ issued' = Nothing /\ done' = Nothing
    /\ UNCHANGED <<route, respondent, table, nArrivals, isSubmitting,
                   pendingInsert, nSubmits, nInserts>>
    /\ UNCHANGED dashVars

TypeText == \E f \in TextFields : \E v \in Typed(f) : SetField(f, v)

PickRadio ==
    \/ \E v \in Clicked("age_group", ageGroups) : SetField("age_group", v)
    \/ \E v \in Clicked("usage_duration", usageDurations) : SetField("usage_duration", v)
    \/ \E v \in Clicked("recommend_telegram", recommendOptions) : SetField("recommend_telegram", v)

\* the free-text input is rendered only while "Other" is ticked
TypeOther ==
    /\ includes(formData.usage_reason, Other)
    /\ \E v \in Scratch : SetField("other_usage_reason", v)

toggled(list, value) ==
    IF includes(list, value) THEN filterOut(list, value) ELSE Append(list, value)

handleMultipleChoice(value, field) == SetField(field, toggled(formData[field], value))

ToggleChoice ==
    \/ \E v \in Clicked("usage_reason", usageReasons) : handleMultipleChoice(v, "usage_reason")
    \/ \E v \in Clicked("content_preference", contentPreferences) :
           handleMultipleChoice(v, "content_preference")

\* handleSubmit up to its await; the submit button is disabled while
\* isSubmitting
handleSubmit ==
    /\ UserActive
    /\ ~isSubmitting
    /\ nSubmits' = nSubmits + 1
    /\ done' = Nothing
    /\ IF MissingFields(formData)
       THEN /\ toast' = "Missing fields"
            /\ issued' = Nothing
            /\ UNCHANGED <<formData, isSubmitting, pendingInsert, nInserts>>
       ELSE IF MissingSelections(formData)
       THEN /\ toast' = "Missing selections"
            /\ issued' = Nothing
            /\ UNCHANGED <<formData, isSubmitting, pendingInsert, nInserts>>
       ELSE /\ isSubmitting' = TRUE
            /\ pendingInsert' = [pending |-> TRUE, row |-> InsertRow(formData)]
            /\ issued' = [kind |-> "insert", row |-> InsertRow(formData)]
            /\ nInserts' = nInserts + 1
            /\ toast' = NoToast
            /\ UNCHANGED formData
    /\ UNCHANGED <<route, respondent, table, nArrivals>>
    /\ UNCHANGED dashVars

\* the store accepts the row; handleSubmit resumes with error == null
InsertOk ==
    /\ pendingInsert.pending
    /\ table' = Append(table, pendingInsert.row)
    /\ pendingInsert' = NoRequest
    /\ toast' = "Thank you for submitting the survey!"
    /\ formData' = EmptyDraft
    /\ isSubmitting' = FALSE
    /\ issued' = Nothing
    /\ done' = [kind |-> "insert", ok |-> TRUE]
    /\ UNCHANGED <<route, respondent, nArrivals, nSubmits, nInserts>>
    /\ UNCHANGED dashVars

\* the reset moved into the finally block
InsertError_Resets ==
    /\ pendingInsert.pending
    /\ pendingInsert' = NoRequest
    /\ toast' = "Submission failed"
    /\ formData' = EmptyDraft
    /\ isSubmitting' = FALSE
    /\ issued' = Nothing
    /\ done' = [kind |-> "insert", ok |-> FALSE]
    /\ UNCHANGED <<route, respondent, table, nArrivals, nSubmits, nInserts>>
    /\ UNCHANGED dashVars

\* the catch block sends the row again
InsertError_Retries ==
    /\ pendingInsert.pending
    /\ nInserts < MaxSubmits
    /\ pendingInsert' = pendingInsert
    /\ issued' = [kind |-> "insert", row |-> pendingInsert.row]
    /\ nInserts' = nInserts + 1
    /\ toast' = "Submission failed"
    /\ done' = [kind |-> "insert", ok |-> FALSE]
    /\ UNCHANGED <<route, respondent, table, nArrivals, formData, isSubmitting, nSubmits>>
    /\ UNCHANGED dashVars

\* the store answers with an error; handleSubmit resumes in its catch
InsertError ==
    /\ pendingInsert.pending
    /\ pendingInsert' = NoRequest
    /\ toast' = "Submission failed"
    /\ isSubmitting' = FALSE
    /\ issued' = Nothing
    /\ done' = [kind |-> "insert", ok |-> FALSE]
    /\ UNCHANGED <<route, respondent, table, nArrivals, formData, nSubmits, nInserts>>
    /\ UNCHANGED dashVars

\* -------------------------------------------------------------- store
(* The store answers a request when its answer is delivered.  A count is   *)
(* the number of rows; a range is rows start..end, both inclusive and      *)
(* zero-based, of the rows ordered by submitted_at descending (newest      *)
(* first), cut at the last row.                                            *)
countRows(t) == Len(t)

selectRange(t, start, end) ==
    LET last == Min(end, Len(t) - 1)
    IN  IF start > last THEN <<>>
        ELSE [k \in 1..(last - start + 1) |-> t[Len(t) - (start + k - 1)]]

\* rows already in the store when the dashboard opens, as the form inserts them
SeedDraft(i) ==
    [EmptyDraft EXCEPT
       !.name = IF i % 2 = 0 THEN "" ELSE "Ann",
       !.age_group = ageGroups[(i % 2) + 1],
       !.usage_duration = usageDurations[((i \div 2) % 2) + 1],
       !.usage_reason = <<usageReasons[1]>>,
       !.content_preference =
           IF i % 3 = 0 THEN <<contentPreferences[1]>>
           ELSE <<contentPreferences[2], contentPreferences[1]>>,
       !.recommend_telegram = recommendOptions[(i % 3) + 1]]

SeedTable(n) == [i \in 1..n |-> InsertRow(SeedDraft(i))]

SeedSizes == {0, 15, 25}

\* ---------------------------------------------------------- Dashboard
\* Math.ceil(totalResponses / responsesPerPage)
totalPages == (totalResponses + responsesPerPage - 1) \div responsesPerPage

\* the arguments of .range() for a page index
\* the page index taken as zero-based
rangeStart_ZeroBased(page) == page * responsesPerPage

rangeStart(page) == (page - 1) * responsesPerPage

\* the end offset taken as exclusive
rangeEnd_Exclusive(page) == page * responsesPerPage

rangeEnd(page) == page * responsesPerPage - 1

\* count || 0 : a failed count query answers null
countOrZero(answer) == IF answer.isNull THEN 0 ELSE answer.count

RemoveAt(s, i) == [k \in 1..(Len(s) - 1) |-> IF k < i THEN s[k] ELSE s[k + 1]]

\* fetchResponses up to its first await, called by the effect with the page
\* index of the render that ran it
fetchResponses(page) ==
    /\ loading' = TRUE
    /\ latest' = "pending"
    /\ fetches' = Append(fetches, [page |-> page, stage |-> "count"])
    /\ issued' = [kind |-> "count", page |-> page]

\* the count query is answered; fetchResponses resumes and sends the range query
CountAnswered(i, answer) ==
    /\ fetches[i].stage = "count"
    /\ totalResponses' = countOrZero(answer)
    /\ fetches' = [fetches EXCEPT ![i] =
                     [page |-> fetches[i].page, stage |-> "range",
                      start |-> rangeStart(fetches[i].page),
                      end |-> rangeEnd(fetches[i].page)]]
    /\ issued' = [kind |-> "range", page |-> fetches[i].page,
                  start |-> rangeStart(fetches[i].page),
                  end |-> rangeEnd(fetches[i].page)]
    /\ done' = [kind |-> "count", ok |-> ~answer.isNull, page |-> fetches[i].page]
    /\ toast' = NoToast
    /\ UNCHANGED <<route, respondent, table, nArrivals, responses, currentPage, loading>>
    /\ UNCHANGED <<latest, shown>>
    /\ UNCHANGED surveyVars

CountOk ==
    \E i \in DOMAIN fetches :
        CountAnswered(i, [isNull |-> FALSE, count |-> countRows(table)])

CountError ==
    \E i \in DOMAIN fetches : CountAnswered(i, [isNull |-> TRUE, count |-> 0])

\* the call in flight at position i is the one started last: calls are kept
\* in the order in which they started
IsLatest(i) == latest = "pending" /\ i = Len(fetches)

\* the range query is answered with rows; fetchResponses runs to its end
RangeOk ==
    \E i \in DOMAIN fetches :
        /\ fetches[i].stage = "range"
        /\ responses' = selectRange(table, fetches[i].start, fetches[i].end)
        /\ loading' = FALSE
        /\ fetches' = RemoveAt(fetches, i)
        /\ done' = [kind |-> "range", ok |-> TRUE, page |-> fetches[i].page]
        /\ shown' = fetches[i].page
        /\ latest' = IF IsLatest(i) THEN "ok" ELSE latest
        /\ toast' = NoToast
        /\ issued' = Nothing
        /\ UNCHANGED <<route, respondent, table, nArrivals, currentPage, totalResponses>>
        /\ UNCHANGED surveyVars

\* the range query is answered with an error; fetchResponses throws it to its catch
RangeError ==
    \E i \in DOMAIN fetches :
        /\ fetches[i].stage = "range"
        /\ toast' = "Error loading data"
        /\ loading' = FALSE
        /\ fetches' = RemoveAt(fetches, i)
        /\ done' = [kind |-> "range", ok |-> FALSE, page |-> fetches[i].page]
        /\ shown' = shown
        /\ latest' = IF IsLatest(i) THEN "failed" ELSE latest
        /\ issued' = Nothing
        /\ UNCHANGED <<route, respondent, table, nArrivals, responses, currentPage,
                       totalResponses>>
        /\ UNCHANGED surveyVars

\* ------------------------------------------------- Dashboard: charts
(* The chart series are computed at render from the displayed records.  A  *)
(* Record<string, number> is the sequence of its entries, in the order in  *)
(* which Object.entries lists them: the order in which the keys were first *)
(* assigned (no label or option of the form is an array index).            *)

\* a counted key moved behind the other keys
countKey_LastSeen(acc, key) ==
    IF \E i \in DOMAIN acc : acc[i].name = key
    THEN Append(SelectSeq(acc, LAMBDA e : e.name # key),
                [name |-> key,
                 value |-> acc[CHOOSE i \in DOMAIN acc : acc[i].name = key].value + 1])
    ELSE Append(acc, [name |-> key, value |-> 1])

\* acc[key] = (acc[key] || 0) + 1
countKey(acc, key) ==
    IF \E i \in DOMAIN acc : acc[i].name = key
    THEN [i \in DOMAIN acc |->
            IF acc[i].name = key THEN [acc[i] EXCEPT !.value = @ + 1] ELSE acc[i]]
    ELSE Append(acc, [name |-> key, value |-> 1])

RECURSIVE reduceField(_, _, _)
\* rows.reduce((acc, response) => { acc[response[field]] = ...; return acc }, acc)
reduceField(acc, rows, field) ==
    IF Len(rows) = 0 THEN acc
    ELSE reduceField(countKey(acc, Head(rows)[field]), Tail(rows), field)

getAgeGroupData == reduceField(<<>>, responses, "age_group")

getRecommendationData == reduceField(<<>>, responses, "recommend_telegram")

getUsageDurationData == reduceField(<<>>, responses, "usage_duration")

RECURSIVE countEach(_, _)
\* list.forEach(content => { acc[content] = (acc[content] || 0) + 1 })
countEach(acc, list) ==
    IF Len(list) = 0 THEN acc
    ELSE countEach(countKey(acc, Head(list)), Tail(list))

RECURSIVE reduceContent(_, _)
reduceContent(acc, rows) ==
    IF Len(rows) = 0 THEN acc
    ELSE reduceContent(countEach(acc, Head(rows).content_preference), Tail(rows))

\* name.replace(/^[^\s]+ /, ''): the first piece, when it is not a space and a
\* space follows it, is dropped together with that space
stripPrefix(label) ==
    IF Len(label) >= 2 /\ label[1] # " " /\ label[2] = " "
    THEN SubSeq(label, 3, Len(label))
    ELSE label

\* an entry put in front of the entries of equal value
insertByValue_BeforeEqual(sorted, e) ==
    LET n == Cardinality({i \in DOMAIN sorted : sorted[i].value > e.value})
    IN  SubSeq(sorted, 1, n) \o <<e>> \o SubSeq(sorted, n + 1, Len(sorted))

\* one step of a stable sort with comparator (a, b) => b.value - a.value: the
\* entry goes behind every entry whose value is not smaller
insertByValue(sorted, e) ==
    LET n == Cardinality({i \in DOMAIN sorted : sorted[i].value >= e.value})
    IN  SubSeq(sorted, 1, n) \o <<e>> \o SubSeq(sorted, n + 1, Len(sorted))

RECURSIVE sortByValue(_, _)
\* Array.prototype.sort, which is stable
sortByValue(sorted, rest) ==
    IF Len(rest) = 0 THEN sorted
    ELSE sortByValue(insertByValue(sorted, Head(rest)), Tail(rest))

\* Array.prototype.slice(0, n)
sliceTo(s, n) == SubSeq(s, 1, Min(n, Len(s)))

getContentPreferenceData ==
    LET contentCounts == reduceContent(<<>>, responses)
        named == [i \in DOMAIN contentCounts |->
                    [name |-> stripPrefix(contentCounts[i].name),
                     value |-> contentCounts[i].value]]
    IN  sliceTo(sortByValue(<<>>, named), 10)

\* the pagination controls are rendered
PaginationShown ==
    /\ route = "dashboard"
    /\ ~(loading /\ Len(responses) = 0)
    /\ Len(responses) # 0
    /\ totalPages > 1

\* setCurrentPage(page); when the index changes the effect calls fetchResponses
setCurrentPage(page) ==
    /\ currentPage' = page
    /\ IF page # currentPage
       THEN /\ Len(fetches) < MaxInFlight
            /\ fetchResponses(page)
       ELSE /\ issued' = Nothing
            /\ UNCHANGED <<loading, fetches, latest>>
    /\ toast' = NoToast /\ done' = Nothing
    /\ UNCHANGED <<route, respondent, table, nArrivals, responses, totalResponses, shown>>
    /\ UNCHANGED surveyVars

PaginationPrevious == PaginationShown /\ setCurrentPage(Max(currentPage - 1, 1))

PaginationLink == PaginationShown /\ \E page \in 1..totalPages : setCurrentPage(page)

PaginationNext_Unclamped == PaginationShown /\ setCurrentPage(currentPage + 1)

PaginationNext == PaginationShown /\ setCurrentPage(Min(currentPage + 1, totalPages))

\* another client's form adds a row
OtherClientInsert ==
    /\ route = "dashboard"
    /\ nArrivals < MaxArrivals
    /\ nArrivals' = nArrivals + 1
    /\ table' = Append(table, InsertRow(SeedDraft(Len(table) + 1)))
    /\ toast' = NoToast /\ issued' = Nothing /\ done' = Nothing
    /\ UNCHANGED <<route, respondent>>
    /\ UNCHANGED surveyVars
    /\ UNCHANGED dashVars

\* ------------------------------------------------------------- routes
\* navigate('/dashboard'): the form is unmounted, the dashboard mounts and its
\* effect runs (leaving a page while its request is in flight is not explored)
SeeResults ==
    /\ route = "survey"
    /\ ~pendingInsert.pending
    /\ route' = "dashboard"
    /\ formData' = EmptyDraft
    /\ isSubmitting' = FALSE
    /\ responses' = <<>>
    /\ currentPage' = 1
    /\ totalResponses' = 0
    /\ shown' = 0
    /\ fetchResponses(1)
    /\ toast' = NoToast /\ done' = Nothing
    /\ UNCHANGED <<respondent, table, nArrivals, pendingInsert, nSubmits, nInserts>>

\* navigate('/'): the dashboard is unmounted, the form mounts
TakeSurvey ==
    /\ route = "dashboard"
    /\ fetches = <<>>
    /\ route' = "survey"
    /\ responses' = <<>>
    /\ currentPage' = 1
    /\ totalResponses' = 0
    /\ loading' = TRUE
    /\ latest' = "none" /\ shown' = 0
    /\ toast' = NoToast /\ issued' = Nothing /\ done' = Nothing
    /\ UNCHANGED <<respondent, table, nArrivals, fetches>>
    /\ UNCHANGED surveyVars

\* ------------------------------------------------------ specifications
InitSurvey ==
    /\ formData = EmptyDraft
    /\ isSubmitting = FALSE
    /\ pendingInsert = NoRequest
    /\ nSubmits = 0
    /\ nInserts = 0

\* the application opened on the form, the store empty
Init ==
    /\ route = "survey"
    /\ respondent \in Respondents
    /\ table = <<>>
    /\ nArrivals = 0
    /\ InitSurvey
    /\ responses = <<>>
    /\ currentPage = 1
    /\ totalResponses = 0
    /\ loading = TRUE
    /\ fetches = <<>>
    /\ latest = "none" /\ shown = 0
    /\ toast = NoToast /\ issued = Nothing /\ done = Nothing

Next ==
    \/ TypeText \/ PickRadio \/ TypeOther \/ ToggleChoice
    \/ handleSubmit \/ InsertOk \/ InsertError
    \/ SeeResults \/ TakeSurvey
    \/ CountOk \/ CountError \/ RangeOk \/ RangeError

Spec == Init /\ [][Next]_vars

\* the application opened on the dashboard, the store holding earlier rows;
\* the mount effect has called fetchResponses
InitDash ==
    /\ route = "dashboard"
    /\ respondent = "browser"
    /\ table \in {SeedTable(n) : n \in SeedSizes}
    /\ nArrivals = 0
    /\ InitSurvey
    /\ responses = <<>>
    /\ currentPage = 1
    /\ totalResponses = 0
    /\ loading = TRUE
    /\ fetches = <<[page |-> 1, stage |-> "count"]>>
    /\ latest = "pending" /\ shown = 0
    /\ toast = NoToast /\ issued = [kind |-> "count", page |-> 1] /\ done = Nothing

NextDash ==
    \/ CountOk \/ CountError \/ RangeOk \/ RangeError
    \/ PaginationPrevious \/ PaginationLink \/ PaginationNext
    \/ OtherClientInsert
    \/ TakeSurvey \/ SeeResults

SpecDash == InitDash /\ [][NextDash]_vars

\* ------------------------------------------------------------- claims
Required == {"age_group", "usage_duration", "recommend_telegram"}

Choices == {"usage_reason", "content_preference"}

\* a draft that the validation of handleSubmit must reject
Incomplete(d) ==
    \/ \E f \in Required : d[f] = ""
    \/ \E f \in Choices : d[f] = <<>>

ValidationToasts == {"Missing fields", "Missing selections"}

\* a step that is a submit action
SubmitStep == nSubmits' = nSubmits + 1

\* C1: a submit action on a draft with an empty required field or an empty
\* multi-select reports a validation error, sends no insert request, and
\* leaves the draft and isSubmitting as they were.
C1_RejectsIncomplete ==
    [][(SubmitStep /\ Incomplete(formData)) =>
         /\ toast' \in ValidationToasts
         /\ issued' = Nothing
         /\ pendingInsert' = pendingInsert
         /\ nInserts' = nInserts
         /\ table' = table
         /\ formData' = formData
         /\ isSubmitting' = isSubmitting]_vars

\* a submit was just rejected for the empty content_preference alone
C1_Witness ==
    /\ toast = "Missing selections"
    /\ issued = Nothing
    /\ \A f \in Required : formData[f] # ""
    /\ formData.usage_reason # <<>>
    /\ formData.content_preference = <<>>

\* the position of a value in a list without repetitions
PositionIn(list, v) == CHOOSE i \in DOMAIN list : list[i] = v

\* the insert request just sent carries the custom reason in place of "Other"
CustomSubmitted ==
    /\ issued.kind = "insert"
    /\ includes(formData.usage_reason, Other)
    /\ formData.other_usage_reason # ""

\* sent is the selected reasons other than "Other", in their order, then scratch
ReplacesSentinel(selected, scratch, sent) ==
    /\ Len(sent) >= 1
    /\ sent[Len(sent)] = scratch
    /\ Len(sent) = Cardinality(Range(selected) \ {Other}) + 1
    /\ \A i \in 1..(Len(sent) - 1) : sent[i] # Other /\ includes(selected, sent[i])
    /\ \A i \in 1..(Len(sent) - 1) : \A j \in 1..(Len(sent) - 1) :
           i < j => PositionIn(selected, sent[i]) < PositionIn(selected, sent[j])

\* C2 as stated: the submitted usage_reason is the non-"Other" reasons in their
\* order followed by the scratch value, and holds no "Other" element.
C2_NoOtherElement ==
    CustomSubmitted =>
        /\ ReplacesSentinel(formData.usage_reason, formData.other_usage_reason,
                            issued.row.usage_reason)
        /\ ~includes(issued.row.usage_reason, Other)

\* C2 amended: the submitted usage_reason is the non-"Other" reasons in their
\* order followed by the scratch value; it holds no "Other" element unless the
\* scratch value is itself "Other"; <<"Other">> with "Custom X" is sent as
\* <<"Custom X">>.
C2_ReplacesOther ==
    CustomSubmitted =>
        /\ ReplacesSentinel(formData.usage_reason, formData.other_usage_reason,
                            issued.row.usage_reason)
        /\ (formData.other_usage_reason # Other
              => ~includes(issued.row.usage_reason, Other))
        /\ (formData.usage_reason = <<Other>> /\ formData.other_usage_reason = "Custom X"
              => issued.row.usage_reason = <<"Custom X">>)

\* "Other" ticked between two reasons, ticked in reverse list order, and sent
C2_Witness ==
    /\ CustomSubmitted
    /\ formData.usage_reason = <<usageReasons[2], Other, usageReasons[1]>>
    /\ formData.other_usage_reason = "Custom X"
    /\ issued.row.usage_reason = <<usageReasons[2], usageReasons[1], "Custom X">>

\* an optional column that carries the empty string
EmptyString(cell) == ~cell.isNull /\ cell.text = ""

\* C3: in every insert request each optional field is null when the draft value
\* is blank and the draft value otherwise, never the empty string; the stored
\* rows and the rows fetched back by the dashboard have no empty string either.
C3_BlankIsNull ==
    /\ issued.kind = "insert" =>
         \A f \in TextFields :
            /\ formData[f] = "" => issued.row[f] = Null
            /\ formData[f] # "" => issued.row[f] = Text(formData[f])
            /\ ~EmptyString(issued.row[f])
    /\ \A i \in DOMAIN table : \A f \in TextFields : ~EmptyString(table[i][f])
    /\ \A i \in DOMAIN responses : \A f \in TextFields : ~EmptyString(responses[i][f])

\* a row sent with every optional field blank has been fetched by the dashboard
C3_Witness ==
    /\ route = "dashboard"
    /\ done.kind = "range" /\ done.ok
    /\ \E i \in DOMAIN responses : \A f \in TextFields : responses[i][f] = Null
    /\ \E i \in DOMAIN responses : \A f \in TextFields : ~responses[i][f].isNull

\* C4: when the insert succeeds every draft field is reset; when it fails the
\* failure notice is shown and the draft is what it was; isSubmitting is false
\* after both.
C4_Completion ==
    [][done'.kind = "insert" =>
         /\ isSubmitting' = FALSE
         /\ done'.ok => formData' = EmptyDraft
         /\ ~done'.ok => toast' = "Submission failed" /\ formData' = formData]_vars

\* an insert failed and left a draft that can be submitted again
C4_Witness ==
    /\ done.kind = "insert" /\ ~done.ok
    /\ ~Incomplete(formData)
    /\ formData.other_usage_reason = "Custom X"
    /\ ~isSubmitting

\* C5: insert requests are sent only by submit actions, one per submit action
\* that passes validation and never more, so they never outnumber the submit
\* actions; the answer to an insert never sends another.
C5_OneInsertPerSubmit ==
    /\ [](nInserts <= nSubmits)
    /\ [][/\ issued'.kind = "insert" => SubmitStep /\ nInserts' = nInserts + 1
          /\ (SubmitStep /\ ~Incomplete(formData)) =>
               issued'.kind = "insert" /\ nInserts' = nInserts + 1
          /\ nInserts' # nInserts => issued'.kind = "insert"
          /\ (pendingInsert'.pending /\ pendingInsert' # pendingInsert) => SubmitStep
          /\ done'.kind = "insert" => ~pendingInsert'.pending /\ nInserts' = nInserts]_vars

\* a second submit action after a failed insert has sent the second request
C5_Witness ==
    /\ nSubmits = 2 /\ nInserts = 2
    /\ done.kind = "insert" /\ ~done.ok
    /\ table = <<>>

CompleteRow(row) ==
    /\ row.usage_reason # <<>>
    /\ row.content_preference # <<>>
    /\ \A f \in Required : row[f] # ""

\* C6: every row sent to the store has non-empty usage_reason and
\* content_preference and non-empty required fields; the stored rows are only
\* ever appended to, never changed or removed.
C6_RowsComplete ==
    /\ [](/\ issued.kind = "insert" => CompleteRow(issued.row)
          /\ pendingInsert.pending => CompleteRow(pendingInsert.row)
          /\ \A i \in DOMAIN table : CompleteRow(table[i]))
    /\ [][\/ table' = table
          \/ /\ Len(table') = Len(table) + 1
             /\ \A i \in DOMAIN table : table'[i] = table[i]]_vars

\* two rows stored, the second after "Other" alone was replaced
C6_Witness ==
    /\ Len(table) = 2
    /\ table[2].usage_reason = <<"Custom X">>
    /\ table[1].usage_reason = <<Other>>

\* a step in which the page index of the mounted dashboard changes
PageChange ==
    route = "dashboard" /\ route' = "dashboard" /\ currentPage' # currentPage

\* a step in which the dashboard mounts
Mount == route = "survey" /\ route' = "dashboard"

\* C7: the mount and every change of the page index send one count query for
\* the page index of that moment; the answer to a count query sends one range query, whose offsets are
\* (page-1)*10 and page*10-1 for the page index that started the fetch; no
\* range query is sent or pending with other offsets.
C7_FetchProtocol ==
    /\ [](/\ issued.kind = "range" =>
               /\ issued.start = (issued.page - 1) * 10
               /\ issued.end = issued.page * 10 - 1
               /\ done.kind = "count" /\ done.page = issued.page
          /\ done.kind = "count" => issued.kind = "range"
          /\ \A i \in DOMAIN fetches :
               fetches[i].stage = "range" =>
                   /\ fetches[i].start = (fetches[i].page - 1) * 10
                   /\ fetches[i].end = fetches[i].page * 10 - 1)
    /\ [][/\ PageChange =>
               /\ issued' = [kind |-> "count", page |-> currentPage']
               /\ fetches' = Append(fetches, [page |-> currentPage', stage |-> "count"])
          /\ Mount =>
               /\ issued' = [kind |-> "count", page |-> 1]
               /\ currentPage' = 1
               /\ fetches' = <<[page |-> 1, stage |-> "count"]>>
          /\ issued'.kind = "count" => PageChange \/ Mount]_vars

\* the range query of a fetch for page 3 has just been sent
C7_Witness ==
    /\ issued.kind = "range"
    /\ issued.page = 3
    /\ issued.start = 20 /\ issued.end = 29
    /\ currentPage = 3

\* the range query for page 2 was just sent, the count having answered 15
Page2Of15 == issued.kind = "range" /\ issued.page = 2 /\ totalResponses = 15

\* the range query for page 2 was just answered from a store of 15 rows
Page2Of15Fetched ==
    done.kind = "range" /\ done.ok /\ done.page = 2 /\ Len(table) = 15

\* C8 as stated: page 2 of 15 is requested with offsets [10,14] and yields 5 rows.
C8_Offsets10To14 ==
    /\ Page2Of15 => issued.start = 10 /\ issued.end = 14
    /\ Page2Of15Fetched => Len(responses) = 5

\* C8 amended: page 2 of 15 is requested with offsets [10,19] and yields the 5
\* rows at offsets 10..14.
C8_Offsets10To19 ==
    /\ Page2Of15 => issued.start = 10 /\ issued.end = 19
    /\ Page2Of15Fetched =>
         /\ Len(responses) = 5
         /\ \A k \in 1..5 : responses[k] = table[15 - (10 + k - 1)]

C8_Witness == Page2Of15Fetched /\ Len(responses) = 5 /\ totalResponses = 15

\* C9 as stated: when the count query or the range query fails, an error notice
\* is shown, the displayed rows and total stay as they were, and the loading
\* indicator is cleared.
C9_FailureKeepsData ==
    [][(done'.kind \in {"count", "range"} /\ ~done'.ok) =>
         /\ toast' = "Error loading data"
         /\ responses' = responses
         /\ totalResponses' = totalResponses
         /\ loading' = FALSE]_vars

\* C10 as stated: once the fetches have completed the page index is within
\* [1, total_pages], and no range
\* request has a negative start offset or one at or beyond the total count.
C10_AlwaysWithinPages ==
    /\ (route = "dashboard" /\ fetches = <<>>) => currentPage \in 1..totalPages
    /\ issued.kind = "range" =>
         /\ issued.start >= 0
         /\ issued.start < totalResponses
         /\ issued.start < countRows(table)

\* C10 amended: total_pages is ceil(total/10) of the displayed total (25 gives
\* 3); a navigation action taken with the page index within [1, total_pages]
\* leaves it there, and the fetch it starts has a start offset below the
\* displayed total; previous at page 1 and next at the last page change nothing
\* and start no fetch; the page index is never below 1 and no range request has
\* a negative start offset.
C10_NavigationWithinPages ==
    /\ [](/\ currentPage >= 1
          /\ totalResponses = 25 => totalPages = 3
          /\ totalPages * 10 >= totalResponses
          /\ totalResponses > 0 => (totalPages - 1) * 10 < totalResponses
          /\ issued.kind = "range" => issued.start >= 0
          /\ \A i \in DOMAIN fetches : fetches[i].page >= 1)
    /\ [][/\ (PageChange /\ currentPage \in 1..totalPages) =>
               /\ currentPage' \in 1..totalPages
               /\ (currentPage' - 1) * 10 < totalResponses
          /\ issued'.kind = "count" => PageChange \/ Mount]_vars

\* the last of three pages has been reached and fetched
C10_Witness ==
    /\ totalResponses = 25 /\ totalPages = 3
    /\ currentPage = 3
    /\ done.kind = "range" /\ done.ok /\ done.page = 3
    /\ Len(responses) = 5

\* the places of the displayed page at which a content label stands: record
\* and position within the record's list
Places ==
    UNION {{<<i, j>> : j \in DOMAIN responses[i].content_preference} :
             i \in DOMAIN responses}

LabelAt(p) == responses[p[1]].content_preference[p[2]]

PageLabels == {LabelAt(p) : p \in Places}

Occurrences(l) == Cardinality({p \in Places : LabelAt(p) = l})

Earlier(p, q) == p[1] < q[1] \/ (p[1] = q[1] /\ p[2] < q[2])

FirstPlace(l) ==
    CHOOSE p \in Places :
        LabelAt(p) = l /\ \A q \in Places : LabelAt(q) = l => ~Earlier(q, p)

\* l is listed before m: more occurrences, or as many and seen first
Ahead(l, m) ==
    \/ Occurrences(l) > Occurrences(m)
    \/ Occurrences(l) = Occurrences(m) /\ Earlier(FirstPlace(l), FirstPlace(m))

Rank(l) == 1 + Cardinality({m \in PageLabels : Ahead(m, l)})

\* the form's labels without the emoji and the space behind it
WithoutEmoji(l) ==
    IF l = contentPreferences[1] THEN <<"Movies">>
    ELSE <<"E-books", " ", "&", " ", "Study">>

\* entries is the top-content series of the displayed records
TopContent(entries) ==
    /\ Len(entries) = Min(10, Cardinality(PageLabels))
    /\ \A l \in PageLabels :
         Rank(l) <= 10 =>
             entries[Rank(l)] = [name |-> WithoutEmoji(l), value |-> Occurrences(l)]
    /\ \A k \in 1..(Len(entries) - 1) : entries[k].value >= entries[k + 1].value

\* C11: getContentPreferenceData has one entry per content label of the
\* displayed page, up to 10: the label without its emoji and the following
\* space, with the number of occurrences of the label in all the lists of the
\* page; the entries are in descending order of count, labels of equal count
\* in the order in which they are first seen.
C11_TopContent == TopContent(getContentPreferenceData)

\* two records fetched; the label seen second is counted twice and listed first
C11_Witness ==
    /\ route = "dashboard"
    /\ done.kind = "range" /\ done.ok
    /\ Len(responses) = 2
    /\ responses[1].content_preference = <<contentPreferences[2], contentPreferences[1]>>
    /\ responses[2].content_preference = <<contentPreferences[1]>>
    /\ getContentPreferenceData =
         <<[name |-> <<"Movies">>, value |-> 2],
           [name |-> <<"E-books", " ", "&", " ", "Study">>, value |-> 1]>>

\* two labels counted once each stay in the order in which they were seen,
\* the reverse of the form's order
C11_TieSeen ==
    /\ Len(responses) = 2
    /\ responses[1].content_preference = <<contentPreferences[2]>>
    /\ responses[2].content_preference = <<contentPreferences[1]>>
    /\ getContentPreferenceData[1].name = <<"E-books", " ", "&", " ", "Study">>

DistributionFields == {"age_group", "recommend_telegram", "usage_duration"}

Distribution(f) ==
    CASE f = "age_group" -> getAgeGroupData
      [] f = "recommend_telegram" -> getRecommendationData
      [] f = "usage_duration" -> getUsageDurationData

\* the displayed records that carry value v in field f
RecordsWith(f, v) == {i \in DOMAIN responses : responses[i][f] = v}

\* the first displayed record that carries value v in field f
FirstRecord(f, v) == CHOOSE i \in RecordsWith(f, v) : \A j \in RecordsWith(f, v) : i <= j

RECURSIVE SumOfValues(_)
SumOfValues(entries) ==
    IF Len(entries) = 0 THEN 0 ELSE Head(entries).value + SumOfValues(Tail(entries))

\* entries is the distribution of field f over the displayed records
FirstSeenCounts(f, entries) ==
    /\ {entries[k].name : k \in DOMAIN entries} = {responses[i][f] : i \in DOMAIN responses}
    /\ \A k \in DOMAIN entries : \A n \in DOMAIN entries :
         /\ k # n => entries[k].name # entries[n].name
         /\ k < n => FirstRecord(f, entries[k].name) < FirstRecord(f, entries[n].name)
    /\ \A k \in DOMAIN entries :
         entries[k].value = Cardinality(RecordsWith(f, entries[k].name))
    /\ SumOfValues(entries) = Len(responses)

\* C12: each of the three distributions has exactly one entry per value of its
\* field among the displayed records, in the order in which the values first
\* occur; each count is the number of displayed records with the value, and
\* the counts add up to the number of displayed records.
C12_FirstSeenCounts ==
    \A f \in DistributionFields : FirstSeenCounts(f, Distribution(f))

\* the first page of 25 records: the answers in the order No, Yes, Maybe, the
\* less frequent Yes before Maybe, and 10 records counted of the 25
C12_Witness ==
    /\ route = "dashboard"
    /\ Len(table) = 25 /\ totalResponses = 25
    /\ currentPage = 1 /\ fetches = <<>>
    /\ Len(responses) = 10
    /\ getRecommendationData =
         <<[name |-> "No", value |-> 4], [name |-> "Yes", value |-> 3],
           [name |-> "Maybe", value |-> 3]>>
    /\ getAgeGroupData =
         <<[name |-> "45+", value |-> 5], [name |-> "Under 18", value |-> 5]>>

\* C13 as stated: a dashboard never has two fetches in flight, and a change of
\* the page index starts its fetch only when no earlier fetch is in flight.
C13_OneFetchInFlight ==
    /\ [](Len(fetches) <= 1)
    /\ [][PageChange => fetches = <<>>]_vars

\* C14 as stated: when no fetch is in flight and the fetch started last
\* succeeded, the displayed records are the range answer for the current page
\* index; while a fetch is in flight the loading indicator is set.
C14_ShowsCurrentPage ==
    /\ (route = "dashboard" /\ fetches = <<>> /\ latest = "ok") => shown = currentPage
    /\ fetches # <<>> => loading

====
